---- MODULE Spec2Model ----
(***************************************************************************)
(* The odometry estimator of URRBaseOdomComponent (InitOdom, UpdateOdom,   *)
(* SensorUpdate) as a state machine.                                       *)
(*                                                                         *)
(* Numbers.  Positions are integer vectors <<x, y, z>>.  An orientation is *)
(* one of the 24 rotations of the cube, written as the images of the three *)
(* basis vectors, so that quaternion products keep their order (the group  *)
(* is not commutative) and stay exact; q and -q are the same orientation   *)
(* and Normalize() of an exact unit quaternion changes nothing.  Time is   *)
(* counted in quanta of half a nanosecond, so the float 1e-9f is Eps = 2   *)
(* quanta and times below, at and above the threshold all exist.  A vector *)
(* divided by a time is kept as the exact quotient [num, den].  Rounding   *)
(* of float arithmetic is outside the model.                               *)
(*                                                                         *)
(* The module also holds the vehicle controller's command callbacks with   *)
(* their threads (RobotSpec) and the mesh actor's activation and mesh      *)
(* component list (MeshSpec); each specification leaves the other          *)
(* components at their constructed state.                                  *)
(***************************************************************************)
EXTENDS Integers, Sequences, FiniteSets, TLC

VARIABLES
    OdomSource,     \* EOdomSource: "ENCODER" or "WORLD"
    bWithNoise,     \* noise switch
    bManualUpdate,  \* TRUE: UpdateOdom is called by the user, not by SensorUpdate
    RootOffset,     \* run -> FTransform added to the published pose
    WorldTime,      \* UGameplayStatics::GetTimeSeconds(GetWorld())
    ActorLocation,  \* GetOwner()->GetActorLocation()
    ActorQuat,      \* GetOwner()->GetActorQuat()
    odom,           \* run -> the members of the component
    hist,           \* history of the calls (not program state)
    Controller,     \* ARRRobotVehicleROSController: Pawn, RobotROS2Node, subscriptions
    Vehicles,       \* vehicle -> "valid", "pendingKill" (destroyed) or "freed" (collected)
    Worker,         \* the ROS worker thread's place in a subscription callback
    GameThreadTasks,\* the tasks queued by AsyncTask(ENamedThreads::GameThread, ...)
    Faults,         \* history: the invalid accesses made so far
    Applied,        \* history: the commands applied to a vehicle
    MeshActor,      \* ARRMeshActor: CellIdx, MeshCompList, BaseMeshComp, custom depth
    MeshCalls       \* history of the latest call on the mesh actor

odomVars == <<OdomSource, bWithNoise, bManualUpdate, RootOffset, WorldTime,
              ActorLocation, ActorQuat, odom, hist>>
robotVars == <<Controller, Vehicles, Worker, GameThreadTasks, Faults, Applied>>
meshVars == <<MeshActor, MeshCalls>>
vars == <<odomVars, robotVars, meshVars>>

\* ------------------------------------------------------------- bounds
MaxTime == 2       \* the world clock runs from 0 to MaxTime quanta
MaxMoves == 1      \* translations and rotations of the body in a run
MaxOps == 2        \* calls of InitOdom / UpdateOdom / SensorUpdate in a run
MaxTasks == 2      \* game-thread tasks waiting in the queue
MaxNesting == 2    \* SetActivated calls made from inside OnDeactivated handlers
MaxNames == 2      \* mesh names in one CreateMeshComponentList call
MaxCreated == 3    \* mesh components created in a run

\* ---------------------------------------------------------- constants
Eps == 2                 \* 1e-9f, in quanta of 0.5e-9 s
OneSec == 2000000000     \* one second, in quanta of 0.5e-9 s
QuantaPerNanosec == OneSec \div 1000000000

\* ------------------------------------------------------------ vectors
ZeroVector == <<0, 0, 0>>
VAdd(a, b) == <<a[1] + b[1], a[2] + b[2], a[3] + b[3]>>
VSub(a, b) == <<a[1] - b[1], a[2] - b[2], a[3] - b[3]>>
VScale(k, a) == <<k * a[1], k * a[2], k * a[3]>>
\* FVector / float, kept exact
VDiv(a, d) == [num |-> a, den |-> d]
\* bool * x in C++
BoolToInt(b) == IF b THEN 1 ELSE 0

\* -------------------------------------------------------- quaternions
\* q = <<image of (1,0,0), image of (0,1,0), image of (0,0,1)>>
QuatIdentity == <<<<1, 0, 0>>, <<0, 1, 0>>, <<0, 0, 1>>>>
\* FQuat::RotateVector
RotateVector(q, v) ==
    VAdd(VAdd(VScale(v[1], q[1]), VScale(v[2], q[2])), VScale(v[3], q[3]))
\* FQuat::operator*: (a * b) applies b first, then a
QuatMul(a, b) == <<RotateVector(a, b[1]), RotateVector(a, b[2]), RotateVector(a, b[3])>>
\* FQuat::Inverse: the transpose
QuatInverse(q) ==
    <<<<q[1][1], q[2][1], q[3][1]>>,
      <<q[1][2], q[2][2], q[3][2]>>,
      <<q[1][3], q[2][3], q[3][3]>>>>
\* FQuat::UnrotateVector
UnrotateVector(q, v) == RotateVector(QuatInverse(q), v)

\* FRotator(Pitch, Yaw, Roll).Quaternion() for the quarter turns used here
Yaw90 == <<<<0, 1, 0>>, <<-1, 0, 0>>, <<0, 0, 1>>>>      \* FRotator(0, 90, 0)
Roll90 == <<<<1, 0, 0>>, <<0, 0, -1>>, <<0, 1, 0>>>>     \* FRotator(0, 0, 90)
RotatorQuaternion(pitch, yaw, roll) ==
    LET Y == CASE yaw = 0 -> QuatIdentity [] yaw = 90 -> Yaw90
        R == CASE roll = 0 -> QuatIdentity [] roll = 90 -> Roll90
    IN  IF pitch = 0 THEN QuatMul(Y, R) ELSE QuatIdentity

\* FQuat::Euler(): <<roll, pitch, yaw>> in degrees
Euler(q) ==
    CASE q = <<<<1, 0, 0>>, <<0, 1, 0>>, <<0, 0, 1>>>> -> <<0, 0, 0>>
      [] q = <<<<1, 0, 0>>, <<0, -1, 0>>, <<0, 0, -1>>>> -> <<180, 0, 0>>
      [] q = <<<<-1, 0, 0>>, <<0, 1, 0>>, <<0, 0, -1>>>> -> <<180, 0, 180>>
      [] q = <<<<-1, 0, 0>>, <<0, -1, 0>>, <<0, 0, 1>>>> -> <<0, 0, 180>>
      [] q = <<<<1, 0, 0>>, <<0, 0, 1>>, <<0, -1, 0>>>> -> <<-90, 0, 0>>
      [] q = <<<<1, 0, 0>>, <<0, 0, -1>>, <<0, 1, 0>>>> -> <<90, 0, 0>>
      [] q = <<<<-1, 0, 0>>, <<0, 0, 1>>, <<0, 1, 0>>>> -> <<-90, 0, 180>>
      [] q = <<<<-1, 0, 0>>, <<0, 0, -1>>, <<0, -1, 0>>>> -> <<90, 0, 180>>
      [] q = <<<<0, 1, 0>>, <<1, 0, 0>>, <<0, 0, -1>>>> -> <<180, 0, 90>>
      [] q = <<<<0, 1, 0>>, <<-1, 0, 0>>, <<0, 0, 1>>>> -> <<0, 0, 90>>
      [] q = <<<<0, -1, 0>>, <<1, 0, 0>>, <<0, 0, 1>>>> -> <<0, 0, -90>>
      [] q = <<<<0, -1, 0>>, <<-1, 0, 0>>, <<0, 0, -1>>>> -> <<180, 0, -90>>
      [] q = <<<<0, 1, 0>>, <<0, 0, 1>>, <<1, 0, 0>>>> -> <<-90, 0, 90>>
      [] q = <<<<0, 1, 0>>, <<0, 0, -1>>, <<-1, 0, 0>>>> -> <<90, 0, 90>>
      [] q = <<<<0, -1, 0>>, <<0, 0, 1>>, <<-1, 0, 0>>>> -> <<-90, 0, -90>>
      [] q = <<<<0, -1, 0>>, <<0, 0, -1>>, <<1, 0, 0>>>> -> <<90, 0, -90>>
      [] q = <<<<0, 0, 1>>, <<1, 0, 0>>, <<0, 1, 0>>>> -> <<90, 90, 0>>
      [] q = <<<<0, 0, 1>>, <<-1, 0, 0>>, <<0, -1, 0>>>> -> <<-90, 90, 0>>
      [] q = <<<<0, 0, -1>>, <<1, 0, 0>>, <<0, -1, 0>>>> -> <<-90, -90, 0>>
      [] q = <<<<0, 0, -1>>, <<-1, 0, 0>>, <<0, 1, 0>>>> -> <<90, -90, 0>>
      [] q = <<<<0, 0, 1>>, <<0, 1, 0>>, <<-1, 0, 0>>>> -> <<0, 90, 0>>
      [] q = <<<<0, 0, 1>>, <<0, -1, 0>>, <<1, 0, 0>>>> -> <<180, 90, 0>>
      [] q = <<<<0, 0, -1>>, <<0, 1, 0>>, <<1, 0, 0>>>> -> <<0, -90, 0>>
      [] q = <<<<0, 0, -1>>, <<0, -1, 0>>, <<-1, 0, 0>>>> -> <<180, -90, 0>>

\* FTransform
Transform(t, r) == [Translation |-> t, Rotation |-> r]
TransformIdentity == Transform(ZeroVector, QuatIdentity)

\* URRConversionUtils::FloatToROSStamp: whole seconds, and the rest in whole
\* nanoseconds
FloatToROSStamp(t) ==
    [sec |-> t \div OneSec, nanosec |-> (t % OneSec) \div QuantaPerNanosec]

\* ---------------------------------------------------------- estimator
\* a float of a covariance matrix, by its literal
Float(literal) == literal
\* the 6x6 covariance of a default-constructed message: 36 zeros.  The array
\* is a sequence: Covariance[k] of the code is position k + 1.
ZeroCovariance == [i \in 1..36 |-> Float("0")]
\* position of the i-th diagonal entry (i in 0..5) of the row-major 6x6 matrix
Diag(i) == 7 * i + 1

\* the component after construction (UObject members are zero-initialised)
NewOdom ==
    [Stamp |-> FloatToROSStamp(0),
     Position |-> ZeroVector,
     Orientation |-> QuatIdentity,
     TwistLinear |-> VDiv(ZeroVector, 1),
     TwistAngular |-> VDiv(ZeroVector, 1),
     PoseCovariance |-> ZeroCovariance,
     TwistCovariance |-> ZeroCovariance,
     InitialTransform |-> TransformIdentity,
     PreviousTransform |-> TransformIdentity,
     PreviousNoisyTransform |-> TransformIdentity,
     bIsOdomInitialized |-> FALSE,
     LastUpdatedTime |-> 0]

\* FROSOdom OdomData: what a reader of the sample gets
OdomData(o) ==
    [Stamp |-> o.Stamp, Position |-> o.Position, Orientation |-> o.Orientation,
     TwistLinear |-> o.TwistLinear, TwistAngular |-> o.TwistAngular,
     PoseCovariance |-> o.PoseCovariance, TwistCovariance |-> o.TwistCovariance]

\* an odom frame that starts from the body's pose whatever the source
InitialTransformOf_AlwaysBody(src, loc, quat) == Transform(loc, quat)

\* InitOdom, the choice of the odom frame
InitialTransformOf(src, loc, quat) ==
    IF src = "ENCODER"
    THEN Transform(loc, quat)
    ELSE Transform(ZeroVector, QuatIdentity)

\* a covariance whose yaw variance lands one entry early
InitCovariance_OffByOne(cov) ==
    [cov EXCEPT ![0 + 1] = Float("1e-05"), ![7 + 1] = Float("1e-05"),
                ![14 + 1] = Float("1e+12"), ![21 + 1] = Float("1e+12"),
                ![28 + 1] = Float("1e+12"), ![34 + 1] = Float("1e-03")]

\* InitOdom, the hardcoded covariance
InitCovariance(cov) ==
    [cov EXCEPT ![0 + 1] = Float("1e-05"), ![7 + 1] = Float("1e-05"),
                ![14 + 1] = Float("1e+12"), ![21 + 1] = Float("1e+12"),
                ![28 + 1] = Float("1e+12"), ![35 + 1] = Float("1e-03")]

\* void URRBaseOdomComponent::InitOdom(); w is what it reads of the world
InitOdom(o, w) ==
    LET init == InitialTransformOf(w.src, w.loc, w.quat)
    IN  [o EXCEPT !.InitialTransform = init,
                  !.Position = init.Translation,
                  !.Orientation = init.Rotation,
                  !.PreviousTransform = init,
                  !.PreviousNoisyTransform = init,
                  !.PoseCovariance = InitCovariance(@),
                  !.TwistCovariance = InitCovariance(@),
                  !.bIsOdomInitialized = TRUE,
                  !.LastUpdatedTime = w.now]

\* a guard that lets zero and sub-threshold elapsed times through
SkipUpdate_NegativeOnly(InDeltaTime) == InDeltaTime < 0

\* UpdateOdom, the guard on the elapsed time
SkipUpdate(InDeltaTime) == InDeltaTime < Eps

\* UpdateOdom, pos before the noise: the body in the odom frame
TruePos(init, loc) == UnrotateVector(init.Rotation, VSub(loc, init.Translation))

\* UpdateOdom, the noise vector FVector(Gaussian, Gaussian, 0)
PositionNoise(n) == <<n[1], n[2], 0>>

\* a position whose noise is added to the true position, not to the previous
\* estimate
NoisyPos_Absolute(pos, previousEstimatedPos, previousPos, withNoise, n) ==
    VAdd(pos, VScale(BoolToInt(withNoise), PositionNoise(n)))

\* UpdateOdom, pos += previousEstimatedPos - previousPos + bWithNoise * noise
NoisyPos(pos, previousEstimatedPos, previousPos, withNoise, n) ==
    VAdd(VAdd(pos, VSub(previousEstimatedPos, previousPos)),
         VScale(BoolToInt(withNoise), PositionNoise(n)))

\* UpdateOdom, rot before the noise
TrueRot(init, quat) == QuatMul(quat, QuatInverse(init.Rotation))

\* UpdateOdom, noiseRot = FRotator(0, 0, bWithNoise * Gaussian)
NoiseRot(withNoise, r) == RotatorQuaternion(0, 0, BoolToInt(withNoise) * r)

\* UpdateOdom, rot = noiseRot * previousEstimatedRot * previousRot^-1 * rot
NoisyRot(noiseRot, previousEstimatedRot, previousRot, rot) ==
    QuatMul(QuatMul(QuatMul(noiseRot, previousEstimatedRot), QuatInverse(previousRot)), rot)

\* UpdateOdom, "position" and "rotation": the new true pose (truePos, trueRot)
\* and the new estimate (pos, rot) in the odom frame; n is what the two
\* generators return
Estimate(o, w, n) ==
    LET truePos == TruePos(o.InitialTransform, w.loc)
        trueRot == TrueRot(o.InitialTransform, w.quat)
    IN  [truePos |-> truePos,
         trueRot |-> trueRot,
         pos |-> NoisyPos(truePos, o.PreviousNoisyTransform.Translation,
                          o.PreviousTransform.Translation, w.withNoise, n.pos),
         rot |-> NoisyRot(NoiseRot(w.withNoise, n.rot), o.PreviousNoisyTransform.Rotation,
                          o.PreviousTransform.Rotation, trueRot)]

\* UpdateOdom, the stamp and the two stored transforms
StorePrevious(o, e, now) ==
    [o EXCEPT !.Stamp = FloatToROSStamp(now),
              !.PreviousTransform = Transform(e.truePos, e.trueRot),
              !.PreviousNoisyTransform = Transform(e.pos, e.rot)]

\* a pose that takes the rotation of the root offset before the twist is
\* computed
EmitPose_RootRotationFirst(o, pos, rot, rootOffset) ==
    [o EXCEPT !.Position = VAdd(pos, rootOffset.Translation),
              !.Orientation = QuatMul(rot, rootOffset.Rotation)]

\* UpdateOdom, OdomData.Pose.Pose = (pos + RootOffset translation, rot)
EmitPose(o, pos, rot, rootOffset) ==
    [o EXCEPT !.Position = VAdd(pos, rootOffset.Translation),
              !.Orientation = rot]

\* UpdateOdom, Twist.Linear
TwistLinear(orientation, pos, previousEstimatedPos, InDeltaTime) ==
    VDiv(UnrotateVector(orientation, VSub(pos, previousEstimatedPos)), InDeltaTime)

\* UpdateOdom, Twist.Angular
TwistAngular(rot, previousEstimatedRot, InDeltaTime) ==
    VDiv(Euler(QuatMul(rot, QuatInverse(previousEstimatedRot))), InDeltaTime)

\* UpdateOdom, OdomData.Twist.Twist; previousEstimated is PreviousNoisyTransform
\* as it was when the call began
EmitTwist(o, e, previousEstimated, InDeltaTime) ==
    [o EXCEPT !.TwistLinear = TwistLinear(o.Orientation, e.pos,
                                          previousEstimated.Translation, InDeltaTime),
              !.TwistAngular = TwistAngular(e.rot, previousEstimated.Rotation, InDeltaTime)]

\* UpdateOdom, OdomData.Pose.Pose.Orientation *= RootOffset.GetRotation()
ApplyRootRotation(o, rootOffset) ==
    [o EXCEPT !.Orientation = QuatMul(@, rootOffset.Rotation)]

\* UpdateOdom past the two guards, given the new estimate e
UpdateFrom(o, e, InDeltaTime, w, rootOffset) ==
    ApplyRootRotation(
        EmitTwist(EmitPose(StorePrevious(o, e, w.now), e.pos, e.rot, rootOffset),
                  e, o.PreviousNoisyTransform, InDeltaTime),
        rootOffset)

\* UpdateOdom past the two guards
UpdateBody(o, InDeltaTime, w, rootOffset, n) ==
    UpdateFrom(o, Estimate(o, w, n), InDeltaTime, w, rootOffset)

\* a guard that initialises on every call
NeedsInit_Always(o) == TRUE

\* UpdateOdom, the guard of the lazy initialisation
NeedsInit(o) == ~o.bIsOdomInitialized

\* UpdateOdom, the lazy initialisation
LazyInit(o, w) == IF NeedsInit(o) THEN InitOdom(o, w) ELSE o

\* void URRBaseOdomComponent::UpdateOdom(float InDeltaTime)
UpdateOdom(o, InDeltaTime, w, rootOffset, n) ==
    LET o1 == LazyInit(o, w)
    IN  IF SkipUpdate(InDeltaTime) THEN o1 ELSE UpdateBody(o1, InDeltaTime, w, rootOffset, n)

\* void URRBaseOdomComponent::SensorUpdate()
SensorUpdate(o, manual, w, rootOffset, n) ==
    IF ~manual
    THEN LET o1 == UpdateOdom(o, w.now - o.LastUpdatedTime, w, rootOffset, n)
         IN  [o1 EXCEPT !.LastUpdatedTime = w.now]
    ELSE o

\* ------------------------------------------------------ ROS controller
\* ARRRobotVehicleROSController.  Its subscription callbacks run on the ROS
\* worker thread; possession, destruction, garbage collection and the tasks
\* queued with AsyncTask run on the game thread.  A vehicle is "valid",
\* "pendingKill" (destroyed, memory still there) or "freed" (collected).
NoPawn == "null"
VehicleIds == {"vehicleA", "vehicleB"}

NewController ==
    [Pawn |-> NoPawn,                  \* AController::Pawn, read by GetPawn()
     RobotROS2Node |-> FALSE,          \* the node has been spawned
     Subscriptions |-> {},             \* callbacks bound on the node
     OdomPublisherVehicle |-> NoPawn]  \* OdomPublisher->RobotVehicle

\* IsValid(ptr): null and destroyed objects are invalid; reading the flags of
\* a collected object is a read of freed memory and can give either answer
IsValid(ptr, vehicles) ==
    IF ptr = NoPawn THEN {FALSE}
    ELSE IF vehicles[ptr] = "valid" THEN {TRUE}
    ELSE IF vehicles[ptr] = "pendingKill" THEN {FALSE}
    ELSE BOOLEAN

\* CastChecked<ARobotVehicle>(ptr): a null pointer is fatal in a build with
\* checks and passes through as null in a build without them
CastChecked(ptr) ==
    IF ptr = NoPawn THEN {"fatal", NoPawn} ELSE {ptr}

\* ConversionUtils::VectorROSToUE, RotationROSToUE: metres to centimetres,
\* right-handed to left-handed
VectorROSToUE(v) == <<100 * v[1], -100 * v[2], 100 * v[3]>>
RotationROSToUE(v) == <<v[1], -v[2], -v[3]>>

TwistMsgs == {[linear |-> <<1, 0, 0>>, angular |-> <<0, 0, 1>>]}

\* sensor_msgs/JointState: name, position, velocity, effort
JointStateMsgs ==
    {[name |-> <<"arm">>, position |-> <<1>>, velocity |-> <<>>, effort |-> <<>>],
     [name |-> <<"wheel">>, position |-> <<>>, velocity |-> <<2>>, effort |-> <<>>],
     [name |-> <<"arm">>, position |-> <<>>, velocity |-> <<>>, effort |-> <<3>>],
     [name |-> <<"arm">>, position |-> <<>>, velocity |-> <<>>, effort |-> <<>>],
     [name |-> <<>>, position |-> <<>>, velocity |-> <<>>, effort |-> <<>>]}

\* ARobotVehicle::Joints of every vehicle
VehicleJoints ==
    [j \in {"arm", "pan"} |->
        IF j = "arm" THEN [LinearDOF |-> 1, RotationalDOF |-> 0]
        ELSE [LinearDOF |-> 0, RotationalDOF |-> 1]]

\* the control type chosen from the lengths of the arrays
JointControlTypeOf(jointState) ==
    IF Len(jointState.name) = Len(jointState.position) THEN "POSITION"
    ELSE IF Len(jointState.name) = Len(jointState.velocity) THEN "VELOCITY"
    ELSE IF Len(jointState.name) = Len(jointState.effort) THEN "EFFORT"
    ELSE "NONE"

\* one joint's input after the ROS to UE conversion, as <<value, unit>>
\* (180 / M_PI is kept as the unit of the number)
JointInput(joint, value) ==
    IF joint.LinearDOF = 1 THEN <<100 * value, "cm">>
    ELSE IF joint.RotationalDOF = 1 THEN <<180 * value, "deg/pi">>
    ELSE <<value, "raw">>

\* the map built by the loop over jointState.name: joints the vehicle does
\* not have are left out
RECURSIVE JointInputs(_, _, _)
JointInputs(jointState, jointControlType, i) ==
    IF i > Len(jointState.name) THEN {}
    ELSE LET rest == JointInputs(jointState, jointControlType, i + 1)
             n == jointState.name[i]
             value == IF jointControlType = "POSITION" THEN jointState.position[i]
                      ELSE jointState.velocity[i]
         IN  IF n \notin DOMAIN VehicleJoints THEN rest
             ELSE {<<n, JointInput(VehicleJoints[n], value)>>} \cup rest

NoMsg == [name |-> <<>>, position |-> <<>>, velocity |-> <<>>, effort |-> <<>>]
IdleWorker == [pc |-> "idle", msg |-> NoMsg, vehicle |-> NoPawn, jointControlType |-> "NONE"]

\* what the worker thread does wrong when it reads through vehicle
VehicleReadFaults(vehicle, vehicles) ==
    IF vehicle = NoPawn THEN {"NullVehicleRead"}
    ELSE IF vehicles[vehicle] = "freed" THEN {"FreedVehicleRead", "WorkerReadsVehicle"}
    ELSE {"WorkerReadsVehicle"}

RobotAtRest ==
    /\ Controller = NewController
    /\ Vehicles = [v \in VehicleIds |-> "valid"]
    /\ Worker = IdleWorker
    /\ GameThreadTasks = <<>>
    /\ Faults = {}
    /\ Applied = {}

\* --------------------------------------------------------- mesh actor
\* ARRMeshActor.  FIntVector::NoneValue is (-1,-1,-1).
NoneValue == <<-1, -1, -1>>
ZeroValue == <<0, 0, 0>>
NoComp == 0

NewMeshActor ==
    [CellIdx |-> ZeroValue,
     Location |-> ZeroVector,
     OnDeactivated |-> "unbound",      \* the delegate
     bCustomDepthEnabled |-> FALSE,
     MeshCompList |-> <<>>,
     BaseMeshComp |-> NoComp,
     RootComponent |-> "DefaultSceneRoot",
     Created |-> 0]                    \* mesh components created so far

NoMeshCall == [op |-> "none", arg |-> FALSE, lastArg |-> FALSE, log |-> <<>>,
               returned |-> <<>>, before |-> NewMeshActor]

MeshAtRest ==
    /\ MeshActor = NewMeshActor
    /\ MeshCalls = NoMeshCall

\* SetCustomDepthEnabled / IsCustomDepthEnabled: the custom depth pass of
\* the actor's meshes, kept as one flag
SetCustomDepthEnabled(actor, bIsCustomDepthEnabled) ==
    [actor EXCEPT !.bCustomDepthEnabled = bIsCustomDepthEnabled]

IsCustomDepthEnabled(actor) == actor.bCustomDepthEnabled

IsActivated(actor) == actor.CellIdx # NoneValue

MeshEvent(event, arg) == [event |-> event, arg |-> arg]

\* what a bound OnDeactivated handler does each time it fires: nothing more
\* than look at the actor, or call SetActivated on it
Reactions == {"none", "activate", "deactivate"}

\* SetActivated(bInIsActivated) on st = [actor, log, lastArg]; reactions are
\* what the handler does at its first, second, ... firing.  The log keeps
\* the calls, the handler firings (with the custom depth flag the handler
\* sees) and the custom depth writes in their order.
RECURSIVE SetActivated(_, _, _)
SetActivated(st, bInIsActivated, reactions) ==
    LET entered == [st EXCEPT !.log = Append(@, MeshEvent("SetActivated", bInIsActivated)),
                              !.lastArg = bInIsActivated]
        teleported == [entered EXCEPT !.actor.CellIdx = NoneValue,
                                      !.actor.Location = <<0, 0, -5000>>]
        fired == [teleported EXCEPT
                    !.log = Append(@, MeshEvent("OnDeactivated",
                                                IsCustomDepthEnabled(teleported.actor)))]
        branch ==
            IF ~bInIsActivated
            THEN IF teleported.actor.OnDeactivated = "unbound" THEN teleported
                 ELSE IF reactions = <<>> \/ Head(reactions) = "none" THEN fired
                 ELSE SetActivated(fired, Head(reactions) = "activate", Tail(reactions))
            ELSE IF entered.actor.CellIdx = NoneValue
                 THEN [entered EXCEPT !.actor.CellIdx = ZeroValue]
                 ELSE entered
    IN  [branch EXCEPT !.actor = SetCustomDepthEnabled(@, bInIsActivated),
                       !.log = Append(@, MeshEvent("SetCustomDepthEnabled", bInIsActivated))]

\* TArray::AddUnique
AddUnique(list, x) ==
    IF \E k \in DOMAIN list : list[k] = x THEN list ELSE Append(list, x)

\* how the creation of one mesh ends: the file of an absolute path is
\* missing, CreateMeshComponent gives null, InitializeMesh fails, or all is well
MeshOutcomes == {"missing", "createFailed", "initFailed", "ok"}

\* the loop of CreateMeshComponentList from its i-th name on; a created
\* component is a new object, named by the count of those created
RECURSIVE CreateMeshLoop(_, _, _, _)
CreateMeshLoop(actor, addedMeshCompList, outcomes, i) ==
    IF i > Len(outcomes) THEN [actor |-> actor, addedMeshCompList |-> addedMeshCompList]
    ELSE IF outcomes[i] = "missing"
         THEN CreateMeshLoop(actor, addedMeshCompList, outcomes, i + 1)
    ELSE LET created == outcomes[i] # "createFailed"
             meshComp == actor.Created + 1
             added == IF outcomes[i] = "ok"
                      THEN AddUnique(addedMeshCompList, meshComp)
                      ELSE addedMeshCompList
             appended == [actor EXCEPT
                            !.Created = IF created THEN @ + 1 ELSE @,
                            !.MeshCompList = @ \o added]
         IN  CreateMeshLoop(appended, added, outcomes, i + 1)

\* the first mesh becomes BaseMeshComp and, its relative transform being the
\* identity (the default of InMeshRelTransf), the root component
ChangeRoot(actor) ==
    IF actor.BaseMeshComp = NoComp /\ Len(actor.MeshCompList) > 0
    THEN [actor EXCEPT !.BaseMeshComp = actor.MeshCompList[1],
                       !.RootComponent = "BaseMeshComp"]
    ELSE actor

CreateMeshComponentList(actor, outcomes) ==
    LET looped == CreateMeshLoop(actor, <<>>, outcomes, 1)
    IN  [actor |-> ChangeRoot(looped.actor), returned |-> looped.addedMeshCompList]

\* ------------------------------------------------------ state machine
Runs == DOMAIN odom

\* what the configuration and the callers may supply
OdomSources == {"ENCODER", "WORLD"}
MountOffset == Transform(<<0, 0, 1>>, Yaw90)
StartPoses == {TransformIdentity, Transform(<<1, 2, 0>>, Yaw90)}
Moves == {<<1, 0, 0>>, <<0, 1, 1>>}
Turns == {Yaw90, Roll90}
DeltaTimes == {Eps - 1, Eps}
\* what GaussianRNGPosition (twice) and GaussianRNGRotation may return
NoiseSamples ==
    {[pos |-> <<1, 0>>, rot |-> 90], [pos |-> <<0, -1>>, rot |-> 0]}
\* the samples worth telling apart in a call: the code multiplies them by
\* bWithNoise, so that with the noise off one sample stands for all
NoiseDraws == IF bWithNoise THEN NoiseSamples ELSE {[pos |-> <<1, 0>>, rot |-> 90]}

\* what InitOdom and UpdateOdom read of the world
World ==
    [src |-> OdomSource, loc |-> ActorLocation, quat |-> ActorQuat,
     now |-> WorldTime, withNoise |-> bWithNoise]

NoCall == [kind |-> "none", dt |-> 0, wasInit |-> FALSE, initRan |-> FALSE, skipped |-> FALSE]

NewHist ==
    [ops |-> 0, moves |-> 0, lastOp |-> NoCall,
     initPose |-> TransformIdentity,   \* the body's pose at the latest InitOdom
     noiseSum |-> ZeroVector,          \* position noise injected since the latest InitOdom
     lazyInits |-> 0,                  \* InitOdom calls made by UpdateOdom
     explicitInits |-> 0,              \* InitOdom calls made by the user
     updateCalls |-> 0,                \* UpdateOdom calls
     firstLazyCall |-> 0,              \* the UpdateOdom call that made the first lazy InitOdom
     truthPrev |-> ZeroVector,         \* the body's location at the call before truthLast
     truthLast |-> ZeroVector,         \* the body's location at the latest InitOdom or full update
     rotated |-> FALSE]                \* the body has rotated since the latest InitOdom

InitWith(offsets) ==
    /\ OdomSource \in OdomSources
    /\ bWithNoise \in BOOLEAN
    /\ bManualUpdate \in BOOLEAN
    /\ RootOffset = offsets
    /\ WorldTime = 0
    /\ \E p \in StartPoses : ActorLocation = p.Translation /\ ActorQuat = p.Rotation
    /\ odom = [r \in DOMAIN offsets |-> NewOdom]
    /\ hist = NewHist
    /\ RobotAtRest
    /\ MeshAtRest

Init == InitWith(<<MountOffset>>)

\* the world clock advances
Tick ==
    /\ WorldTime < MaxTime
    /\ WorldTime' = WorldTime + 1
    /\ hist' = [hist EXCEPT !.lastOp = NoCall]
    /\ UNCHANGED <<OdomSource, bWithNoise, bManualUpdate, RootOffset,
                   ActorLocation, ActorQuat, odom>>
    /\ UNCHANGED <<robotVars, meshVars>>

\* the body translates
MoveActor ==
    /\ hist.moves < MaxMoves
    /\ \E v \in Moves : ActorLocation' = VAdd(ActorLocation, v)
    /\ hist' = [hist EXCEPT !.lastOp = NoCall, !.moves = @ + 1]
    /\ UNCHANGED <<OdomSource, bWithNoise, bManualUpdate, RootOffset,
                   WorldTime, ActorQuat, odom>>
    /\ UNCHANGED <<robotVars, meshVars>>

\* the body turns about one of its own axes
TurnActor ==
    /\ hist.moves < MaxMoves
    /\ \E r \in Turns : ActorQuat' = QuatMul(ActorQuat, r)
    /\ hist' = [hist EXCEPT !.lastOp = NoCall, !.moves = @ + 1, !.rotated = TRUE]
    /\ UNCHANGED <<OdomSource, bWithNoise, bManualUpdate, RootOffset,
                   WorldTime, ActorLocation, odom>>
    /\ UNCHANGED <<robotVars, meshVars>>

\* the history after a call of UpdateOdom(dt) that got the noise n
HistAfterUpdate(kind, dt, n) ==
    LET initRan == NeedsInit(odom[1])
        skipped == SkipUpdate(dt)
        afterInit ==
            IF ~initRan THEN hist
            ELSE [hist EXCEPT !.initPose = Transform(ActorLocation, ActorQuat),
                              !.noiseSum = ZeroVector,
                              !.lazyInits = @ + 1,
                              !.firstLazyCall = IF @ = 0 THEN hist.updateCalls + 1 ELSE @,
                              !.truthLast = ActorLocation,
                              !.rotated = FALSE]
        afterBody ==
            IF skipped THEN afterInit
            ELSE [afterInit EXCEPT
                    !.noiseSum = IF bWithNoise THEN VAdd(@, <<n.pos[1], n.pos[2], 0>>) ELSE @,
                    !.truthPrev = afterInit.truthLast,
                    !.truthLast = ActorLocation]
    IN  [afterBody EXCEPT
            !.ops = @ + 1,
            !.updateCalls = @ + 1,
            !.lastOp = [kind |-> kind, dt |-> dt, wasInit |-> odom[1].bIsOdomInitialized,
                        initRan |-> initRan, skipped |-> skipped]]

\* the user calls InitOdom()
DoInitOdom ==
    /\ hist.ops < MaxOps
    /\ odom' = [r \in Runs |-> InitOdom(odom[r], World)]
    /\ hist' = [hist EXCEPT !.ops = @ + 1,
                            !.explicitInits = @ + 1,
                            !.lastOp = [kind |-> "InitOdom", dt |-> 0,
                                        wasInit |-> odom[1].bIsOdomInitialized,
                                        initRan |-> TRUE, skipped |-> FALSE],
                            !.initPose = Transform(ActorLocation, ActorQuat),
                            !.noiseSum = ZeroVector,
                            !.truthLast = ActorLocation,
                            !.rotated = FALSE]
    /\ UNCHANGED <<OdomSource, bWithNoise, bManualUpdate, RootOffset,
                   WorldTime, ActorLocation, ActorQuat>>
    /\ UNCHANGED <<robotVars, meshVars>>

\* the user calls UpdateOdom(dt) (manual update)
DoUpdateOdom ==
    /\ hist.ops < MaxOps
    /\ bManualUpdate
    /\ \E dt \in DeltaTimes, n \in NoiseDraws :
          /\ odom' = [r \in Runs |-> UpdateOdom(odom[r], dt, World, RootOffset[r], n)]
          /\ hist' = HistAfterUpdate("UpdateOdom", dt, n)
    /\ UNCHANGED <<OdomSource, bWithNoise, bManualUpdate, RootOffset,
                   WorldTime, ActorLocation, ActorQuat>>
    /\ UNCHANGED <<robotVars, meshVars>>

\* the sensor's periodic timer calls SensorUpdate()
DoSensorUpdate ==
    /\ hist.ops < MaxOps
    /\ \E n \in NoiseDraws :
          /\ odom' = [r \in Runs |-> SensorUpdate(odom[r], bManualUpdate, World, RootOffset[r], n)]
          /\ hist' = IF bManualUpdate
                     THEN [hist EXCEPT !.lastOp = NoCall]
                     ELSE HistAfterUpdate("SensorUpdate", WorldTime - odom[1].LastUpdatedTime, n)
    /\ UNCHANGED <<OdomSource, bWithNoise, bManualUpdate, RootOffset,
                   WorldTime, ActorLocation, ActorQuat>>
    /\ UNCHANGED <<robotVars, meshVars>>

Next ==
    \/ Tick
    \/ MoveActor
    \/ TurnActor
    \/ DoInitOdom
    \/ DoUpdateOdom
    \/ DoSensorUpdate

Spec == Init /\ [][Next]_vars

\* two estimators that differ in RootOffset only, fed the same world and noise
PairInit == InitWith(<<MountOffset, TransformIdentity>>)
PairSpec == PairInit /\ [][Next]_vars

\* ------------------------------------------- ROS controller: threads
\* the estimator left alone while another component is exercised
OdomAtRest ==
    /\ OdomSource = "ENCODER"
    /\ bWithNoise = FALSE
    /\ bManualUpdate = FALSE
    /\ RootOffset = <<MountOffset>>
    /\ WorldTime = 0
    /\ ActorLocation = ZeroVector
    /\ ActorQuat = QuatIdentity
    /\ odom = <<NewOdom>>
    /\ hist = NewHist

Crashed == Worker.pc = "crashed"

Task(kind, vehicle, linear, angular, joints, jointControlType) ==
    [kind |-> kind, vehicle |-> vehicle, linear |-> linear, angular |-> angular,
     joints |-> joints, jointControlType |-> jointControlType]

\* game thread: the controller possesses a vehicle
OnPossess(v) ==
    /\ ~Crashed
    /\ Vehicles[v] = "valid"
    /\ Controller.Pawn = NoPawn
    /\ Controller' = [Pawn |-> v,
                      RobotROS2Node |-> TRUE,
                      Subscriptions |-> Controller.Subscriptions \cup {"cmd_vel", "joint_states"},
                      OdomPublisherVehicle |-> v]
    /\ UNCHANGED <<Vehicles, Worker, GameThreadTasks, Faults, Applied>>
    /\ UNCHANGED <<odomVars, meshVars>>

\* what OnUnPossess does to the controller
UnPossessed(c) == [c EXCEPT !.OdomPublisherVehicle = NoPawn, !.Pawn = NoPawn]

\* game thread: the controller lets go of its vehicle
OnUnPossess ==
    /\ ~Crashed
    /\ Controller.Pawn # NoPawn
    /\ Controller' = UnPossessed(Controller)
    /\ UNCHANGED <<Vehicles, Worker, GameThreadTasks, Faults, Applied>>
    /\ UNCHANGED <<odomVars, meshVars>>

\* game thread: a vehicle is destroyed; its controller unpossesses it
DestroyPawn(v) ==
    /\ ~Crashed
    /\ Vehicles[v] = "valid"
    /\ Vehicles' = [Vehicles EXCEPT ![v] = "pendingKill"]
    /\ Controller' = IF Controller.Pawn = v THEN UnPossessed(Controller) ELSE Controller
    /\ UNCHANGED <<Worker, GameThreadTasks, Faults, Applied>>
    /\ UNCHANGED <<odomVars, meshVars>>

\* game thread: the collector frees a destroyed vehicle (a raw pointer
\* captured by a queued task does not keep it alive)
CollectGarbage(v) ==
    /\ ~Crashed
    /\ Vehicles[v] = "pendingKill"
    /\ Vehicles' = [Vehicles EXCEPT ![v] = "freed"]
    /\ UNCHANGED <<Controller, Worker, GameThreadTasks, Faults, Applied>>
    /\ UNCHANGED <<odomVars, meshVars>>

\* worker thread: MovementCallback(Msg), whole
MovementCallback(twist) ==
    /\ Worker.pc = "idle"
    /\ "cmd_vel" \in Controller.Subscriptions
    /\ Len(GameThreadTasks) < MaxTasks
    /\ \E vehicle \in CastChecked(Controller.Pawn) :
          IF vehicle = "fatal"
          THEN /\ Worker' = [Worker EXCEPT !.pc = "crashed"]
               /\ Faults' = Faults \cup {"WorkerReadsController", "NullVehicleCast"}
               /\ UNCHANGED GameThreadTasks
          ELSE /\ GameThreadTasks' =
                     Append(GameThreadTasks,
                            Task("Twist", vehicle, VectorROSToUE(twist.linear),
                                 RotationROSToUE(twist.angular), {}, "NONE"))
               /\ Faults' = Faults \cup {"WorkerReadsController"}
               /\ UNCHANGED Worker
    /\ UNCHANGED <<Controller, Vehicles, Applied>>
    /\ UNCHANGED <<odomVars, meshVars>>

\* worker thread: JointStateCallback(Msg) up to the choice of the control type
JointStateCallbackBegin(jointState) ==
    /\ Worker.pc = "idle"
    /\ "joint_states" \in Controller.Subscriptions
    /\ Len(GameThreadTasks) < MaxTasks
    /\ \E vehicle \in CastChecked(Controller.Pawn) :
          IF vehicle = "fatal"
          THEN /\ Worker' = [Worker EXCEPT !.pc = "crashed"]
               /\ Faults' = Faults \cup {"WorkerReadsController", "NullVehicleCast"}
          ELSE /\ Worker' =
                     IF JointControlTypeOf(jointState) \in {"EFFORT", "NONE"}
                     THEN IdleWorker
                     ELSE [pc |-> "joints", msg |-> jointState, vehicle |-> vehicle,
                           jointControlType |-> JointControlTypeOf(jointState)]
               /\ Faults' = Faults \cup {"WorkerReadsController"}
    /\ UNCHANGED <<Controller, Vehicles, GameThreadTasks, Applied>>
    /\ UNCHANGED <<odomVars, meshVars>>

\* worker thread: the loop over the joint names, which reads vehicle->Joints,
\* and the AsyncTask that follows it
JointStateCallbackEnd ==
    /\ Worker.pc = "joints"
    /\ LET reads == Len(Worker.msg.name) > 0
           inputs == JointInputs(Worker.msg, Worker.jointControlType, 1)
       IN  IF reads /\ Worker.vehicle = NoPawn
           THEN /\ Worker' = [Worker EXCEPT !.pc = "crashed"]
                /\ Faults' = Faults \cup VehicleReadFaults(Worker.vehicle, Vehicles)
                /\ UNCHANGED GameThreadTasks
           ELSE /\ \E joints \in IF reads /\ Vehicles[Worker.vehicle] = "freed"
                                 THEN {inputs, {}} ELSE {inputs} :
                      GameThreadTasks' =
                         Append(GameThreadTasks,
                                Task("JointState", Worker.vehicle, ZeroVector, ZeroVector,
                                     joints, Worker.jointControlType))
                /\ Faults' = Faults \cup
                               (IF reads THEN VehicleReadFaults(Worker.vehicle, Vehicles) ELSE {})
                /\ Worker' = IdleWorker
    /\ UNCHANGED <<Controller, Vehicles, Applied>>
    /\ UNCHANGED <<odomVars, meshVars>>

\* game thread: the oldest queued task runs
RunGameThreadTask ==
    /\ ~Crashed
    /\ GameThreadTasks # <<>>
    /\ LET task == Head(GameThreadTasks)
           freed == task.vehicle # NoPawn /\ Vehicles[task.vehicle] = "freed"
       IN  \E valid \in IsValid(task.vehicle, Vehicles) :
              /\ Applied' = IF valid
                            THEN Applied \cup {[kind |-> task.kind, vehicle |-> task.vehicle,
                                                state |-> Vehicles[task.vehicle]]}
                            ELSE Applied
              /\ Faults' = Faults \cup (IF freed THEN {"FreedVehicleRead"} ELSE {})
                                  \cup (IF freed /\ valid THEN {"FreedVehicleWrite"} ELSE {})
    /\ GameThreadTasks' = Tail(GameThreadTasks)
    /\ UNCHANGED <<Controller, Vehicles, Worker>>
    /\ UNCHANGED <<odomVars, meshVars>>

RobotInit == OdomAtRest /\ RobotAtRest /\ MeshAtRest

RobotNext ==
    \/ \E v \in VehicleIds : OnPossess(v)
    \/ OnUnPossess
    \/ \E v \in VehicleIds : DestroyPawn(v)
    \/ \E v \in VehicleIds : CollectGarbage(v)
    \/ \E twist \in TwistMsgs : MovementCallback(twist)
    \/ \E jointState \in JointStateMsgs : JointStateCallbackBegin(jointState)
    \/ JointStateCallbackEnd
    \/ RunGameThreadTask

RobotSpec == RobotInit /\ [][RobotNext]_vars

\* --------------------------------------------------- mesh actor: calls
GridCells == {<<1, 0, 0>>}

\* the handler's reactions, one for each nested firing
ReactionScripts ==
    UNION {[1..n -> Reactions] : n \in 0..MaxNesting}

OutcomeLists ==
    UNION {[1..n -> MeshOutcomes] : n \in 0..MaxNames}

\* a handler is bound to OnDeactivated
BindOnDeactivated ==
    /\ MeshActor.OnDeactivated = "unbound"
    /\ MeshActor' = [MeshActor EXCEPT !.OnDeactivated = "bound"]
    /\ MeshCalls' = [NoMeshCall EXCEPT !.op = "BindOnDeactivated", !.before = MeshActor]
    /\ UNCHANGED <<odomVars, robotVars>>

\* the grid that arranges the actors gives an active actor its cell
AssignCell ==
    /\ IsActivated(MeshActor)
    /\ \E c \in GridCells : MeshActor' = [MeshActor EXCEPT !.CellIdx = c]
    /\ MeshCalls' = [NoMeshCall EXCEPT !.op = "AssignCell", !.before = MeshActor]
    /\ UNCHANGED <<odomVars, robotVars>>

\* SetActivated(bInIsActivated) is called from outside any handler
DoSetActivated ==
    /\ \E bInIsActivated \in BOOLEAN,
          reactions \in IF MeshActor.OnDeactivated = "bound" THEN ReactionScripts ELSE {<<>>} :
          LET done == SetActivated([actor |-> MeshActor, log |-> <<>>, lastArg |-> FALSE],
                                   bInIsActivated, reactions)
          IN  /\ MeshActor' = done.actor
              /\ MeshCalls' = [op |-> "SetActivated", arg |-> bInIsActivated,
                               lastArg |-> done.lastArg, log |-> done.log,
                               returned |-> <<>>, before |-> MeshActor]
    /\ UNCHANGED <<odomVars, robotVars>>

\* CreateMeshComponentList(parent, names) is called
DoCreateMeshComponentList ==
    /\ \E outcomes \in OutcomeLists :
          LET done == CreateMeshComponentList(MeshActor, outcomes)
          IN  /\ MeshActor.Created + Len(outcomes) <= MaxCreated
              /\ MeshActor' = done.actor
              /\ MeshCalls' = [NoMeshCall EXCEPT !.op = "CreateMeshComponentList",
                                                 !.returned = done.returned,
                                                 !.before = MeshActor]
    /\ UNCHANGED <<odomVars, robotVars>>

MeshInit == OdomAtRest /\ RobotAtRest /\ MeshAtRest

MeshNext ==
    \/ BindOnDeactivated
    \/ AssignCell
    \/ DoSetActivated
    \/ DoCreateMeshComponentList

MeshSpec == MeshInit /\ [][MeshNext]_vars

\* ------------------------------------------------------------- claims
UpdateKinds == {"UpdateOdom", "SensorUpdate"}
\* the step is a call of UpdateOdom (directly or from SensorUpdate)
UpdateStep == hist'.lastOp.kind \in UpdateKinds
\* the state is the one a full (not skipped) update has just left
AfterFullUpdate == hist.lastOp.kind \in UpdateKinds /\ ~hist.lastOp.skipped

C2_InitPoseAtOrigin ==
    (/\ OdomSource = "ENCODER"
     /\ hist.lastOp.initRan
     /\ hist.lastOp.kind = "InitOdom" \/ hist.lastOp.skipped)
    => /\ odom[1].Position = ZeroVector
       /\ odom[1].Orientation = QuatIdentity

\* FTransform::GetRelativeTransform: pose expressed in the frame of base
RelativeTransform(pose, base) ==
    Transform(UnrotateVector(base.Rotation, VSub(pose.Translation, base.Translation)),
              QuatMul(QuatInverse(base.Rotation), pose.Rotation))
\* the emitted pose with the root offset taken off again
WithoutRootOffset(o, rootOffset) ==
    Transform(VSub(o.Position, rootOffset.Translation),
              QuatMul(o.Orientation, QuatInverse(rootOffset.Rotation)))
ActorTransform == Transform(ActorLocation, ActorQuat)

\* C3 as stated: with the noise off, after every full update the emitted pose
\* minus the root offset is the body's pose relative to InitialTransform.
C3_Passthrough ==
    (AfterFullUpdate /\ ~bWithNoise)
    => WithoutRootOffset(odom[1], RootOffset[1])
         = RelativeTransform(ActorTransform, odom[1].InitialTransform)

\* the position half of C3
C3_PositionPassthrough ==
    (AfterFullUpdate /\ ~bWithNoise)
    => WithoutRootOffset(odom[1], RootOffset[1]).Translation
         = RelativeTransform(ActorTransform, odom[1].InitialTransform).Translation

\* the six diagonal entries of a covariance matrix
Diagonal(cov) == [i \in 0..5 |-> cov[Diag(i)]]
FixedDiagonal ==
    [i \in 0..5 |-> CASE i \in {0, 1} -> "1e-05" [] i \in {2, 3, 4} -> "1e+12" [] i = 5 -> "1e-03"]
\* InitOdom has run, by the user's call or inside UpdateOdom
SomeCallMade == hist.explicitInits + hist.updateCalls >= 1

\* C4: once InitOdom or UpdateOdom has been called, the diagonals of the pose
\* covariance and of the twist covariance are both
\* [1e-5, 1e-5, 1e12, 1e12, 1e12, 1e-3], and a step in which InitOdom does not
\* run changes no covariance entry.
C4_FixedCovariance ==
    /\ [](SomeCallMade
            => /\ Diagonal(odom[1].PoseCovariance) = FixedDiagonal
               /\ Diagonal(odom[1].TwistCovariance) = FixedDiagonal)
    /\ [][~hist'.lastOp.initRan
            => /\ odom'[1].PoseCovariance = odom[1].PoseCovariance
               /\ odom'[1].TwistCovariance = odom[1].TwistCovariance]_vars

\* a full update with noise of a body that has moved, after an earlier call
C4_Witness ==
    /\ AfterFullUpdate
    /\ hist.lastOp.wasInit
    /\ bWithNoise
    /\ odom[1].TwistLinear.num # ZeroVector
    /\ Diagonal(odom[1].PoseCovariance) = FixedDiagonal
    /\ Diagonal(odom[1].TwistCovariance) = FixedDiagonal

\* C5: in every initialized state InitialTransform is the identity with WORLD
\* and the body's pose at the latest InitOdom with ENCODER, and a step in
\* which InitOdom does not run leaves it as it was.
C5_InitialTransformFixed ==
    /\ [](odom[1].bIsOdomInitialized
            => odom[1].InitialTransform
                 = IF OdomSource = "WORLD" THEN TransformIdentity ELSE hist.initPose)
    /\ [][~hist'.lastOp.initRan
            => odom'[1].InitialTransform = odom[1].InitialTransform]_vars

\* WORLD, a body that started away from the origin and has moved or turned,
\* and a full update since
C5_Witness ==
    /\ OdomSource = "WORLD"
    /\ AfterFullUpdate
    /\ hist.initPose # TransformIdentity
    /\ ActorTransform # hist.initPose
    /\ odom[1].InitialTransform = TransformIdentity

\* C6: with no InitOdom call by the user, InitOdom runs in the first
\* UpdateOdom call (skipped by the guard on the elapsed time or not) and in no
\* later one, and bIsOdomInitialized never returns to FALSE.
C6_LazyInitOnce ==
    /\ []((hist.explicitInits = 0 /\ hist.updateCalls >= 1)
            => hist.lazyInits = 1 /\ hist.firstLazyCall = 1)
    /\ [][odom[1].bIsOdomInitialized => odom'[1].bIsOdomInitialized]_vars

\* two UpdateOdom calls, both skipped by the guard, and no call by the user
C6_Witness ==
    /\ hist.explicitInits = 0
    /\ hist.updateCalls = 2
    /\ hist.lastOp.skipped
    /\ odom[1].Stamp = NewOdom.Stamp
    /\ odom[1].TwistLinear = NewOdom.TwistLinear
    /\ hist.lazyInits = 1
    /\ odom[1].bIsOdomInitialized

\* C7 as stated: with the noise off and a body that has not rotated, a full
\* update emits as linear twist the body's displacement since the previous
\* update (or the initialization), in the body's frame, over deltaTime, and a
\* zero angular twist.
C7_TwistFromMotion ==
    (AfterFullUpdate /\ ~bWithNoise /\ ~hist.rotated)
    => /\ odom[1].TwistLinear
            = VDiv(UnrotateVector(ActorQuat, VSub(hist.truthLast, hist.truthPrev)),
                   hist.lastOp.dt)
       /\ odom[1].TwistAngular = VDiv(ZeroVector, hist.lastOp.dt)

\* the scenario of C7: ENCODER, no noise, initialization at the world origin,
\* then one full update after a move of one unit along the forward axis
C7_Scenario ==
    (/\ AfterFullUpdate /\ ~bWithNoise /\ ~hist.rotated
     /\ OdomSource = "ENCODER"
     /\ hist.initPose = TransformIdentity
     /\ hist.truthPrev = ZeroVector
     /\ ActorLocation = <<1, 0, 0>>)
    => /\ odom[1].Position = VAdd(<<1, 0, 0>>, RootOffset[1].Translation)
       /\ odom[1].TwistLinear = VDiv(<<1, 0, 0>>, hist.lastOp.dt)
       /\ odom[1].TwistAngular = VDiv(ZeroVector, hist.lastOp.dt)

\* C8 as stated: an update call on an uninitialized estimator only
\* initializes: the sample after it is the one InitOdom alone produces.
C8_FirstUpdateOnlyInitializes ==
    [][(UpdateStep /\ ~odom[1].bIsOdomInitialized)
        => OdomData(odom'[1]) = OdomData(InitOdom(odom[1], World))]_vars

\* PreviousNoisyTransform minus PreviousTransform, in translation
NoiseOffset(o) ==
    VSub(o.PreviousNoisyTransform.Translation, o.PreviousTransform.Translation)

\* C9: PreviousNoisyTransform.translation - PreviousTransform.translation is
\* the sum of the position noise injected by the full updates since the latest
\* InitOdom; it is zero right after InitOdom, zero in every state with the
\* noise off, its z is zero in every state, and either transform changes only
\* in a step that assigns both (InitOdom, or a full update).
C9_NoiseOffset ==
    /\ [](/\ NoiseOffset(odom[1]) = hist.noiseSum
          /\ hist.lastOp.kind = "InitOdom" => NoiseOffset(odom[1]) = ZeroVector
          /\ ~bWithNoise => NoiseOffset(odom[1]) = ZeroVector
          /\ NoiseOffset(odom[1])[3] = 0)
    /\ [][(\/ odom'[1].PreviousTransform # odom[1].PreviousTransform
           \/ odom'[1].PreviousNoisyTransform # odom[1].PreviousNoisyTransform)
            => \/ hist'.lastOp.initRan
               \/ (UpdateStep /\ ~hist'.lastOp.skipped)]_vars

\* two full updates with two different noise samples, of a body that moved
\* off the plane
C9_Witness ==
    /\ bWithNoise
    /\ AfterFullUpdate
    /\ hist.updateCalls = 2
    /\ hist.noiseSum = <<1, -1, 0>>
    /\ odom[1].PreviousTransform.Translation[3] # 0
    /\ NoiseOffset(odom[1]) = <<1, -1, 0>>

\* C10: two estimators that differ in RootOffset only and are fed the same
\* poses, times and noise have, in every state, the same twist, the same
\* PreviousTransform and the same PreviousNoisyTransform.
C10_RootOffsetOnlyInPose ==
    /\ odom[1].TwistLinear = odom[2].TwistLinear
    /\ odom[1].TwistAngular = odom[2].TwistAngular
    /\ odom[1].PreviousTransform = odom[2].PreviousTransform
    /\ odom[1].PreviousNoisyTransform = odom[2].PreviousNoisyTransform

\* two full updates; the emitted poses differ in position and in orientation
\* and the twist is not zero
C10_Witness ==
    /\ RootOffset[1] # RootOffset[2]
    /\ AfterFullUpdate
    /\ hist.lastOp.wasInit
    /\ odom[1].TwistLinear.num # ZeroVector
    /\ odom[1].TwistAngular.num # ZeroVector
    /\ odom[1].Position # odom[2].Position
    /\ odom[1].Orientation # odom[2].Orientation

\* C11: a twist or joint-state command delivered on the worker thread, in
\* any interleaving with OnPossess, OnUnPossess and the destruction of the
\* pawn, never goes through a null or invalid vehicle: the callback reads no
\* controller or vehicle member off the game thread, nothing is read or
\* written through a null or freed vehicle, and a queued task applies its
\* command only to a vehicle that is valid when the task runs.
C11_CommandNeverThroughInvalidVehicle ==
    /\ Faults = {}
    /\ \A a \in Applied : a.state = "valid"


\* the k-th event of the latest call's log is the named one with this argument
LogHas(k, event, arg) ==
    /\ k \in DOMAIN MeshCalls.log
    /\ MeshCalls.log[k] = MeshEvent(event, arg)

\* the handler fired before custom depth was switched off, with CellIdx
\* already NoneValue
FiredBeforeDepthOff ==
    \E i, j \in DOMAIN MeshCalls.log :
        /\ i < j
        /\ MeshCalls.log[i].event = "OnDeactivated"
        /\ LogHas(j, "SetCustomDepthEnabled", FALSE)

\* C12: when a SetActivated call has returned, handlers that call
\* SetActivated included, IsActivated() and the custom depth flag both equal
\* the argument of the most recent SetActivated call; a deactivation fires
\* OnDeactivated before custom depth is switched off; SetActivated(true) on
\* an active actor leaves CellIdx as it was.
C12_ActivationMatchesLastCall ==
    MeshCalls.op = "SetActivated" =>
        /\ IsActivated(MeshActor) = MeshCalls.lastArg
        /\ IsCustomDepthEnabled(MeshActor) = MeshCalls.lastArg
        /\ (~MeshCalls.arg /\ MeshCalls.before.OnDeactivated = "bound") => FiredBeforeDepthOff
        /\ (MeshCalls.arg /\ IsActivated(MeshCalls.before)) =>
               MeshActor.CellIdx = MeshCalls.before.CellIdx

NoDuplicates(list) ==
    \A i, j \in DOMAIN list : list[i] = list[j] => i = j

\* C13: every CreateMeshComponentList call grows MeshCompList by exactly the
\* number of components it returns, and no component is in MeshCompList twice.
C13_MeshCompListGrowsByReturned ==
    /\ NoDuplicates(MeshActor.MeshCompList)
    /\ MeshCalls.op = "CreateMeshComponentList" =>
          Len(MeshActor.MeshCompList)
              = Len(MeshCalls.before.MeshCompList) + Len(MeshCalls.returned)

====
